---------------------------- MODULE Spec2Model ----------------------------
(***************************************************************************)
(* A model of the Goat Pico Network Manager (src/src/NetworkManager.py):  *)
(* the NetworkManager connectivity loop (run, load_config, start_ap,      *)
(* stop_ap, the captive-portal request handler and its connect action)    *)
(* and the NetworkManagerDNS redirector (handle_dns_query).               *)
(*                                                                         *)
(* Text (HTTP requests, form bodies, SSIDs, passwords, dotted addresses)   *)
(* is a sequence of one-character strings; a datagram is a sequence of     *)
(* bytes 0..255.                                                           *)
(***************************************************************************)
EXTENDS Integers, Sequences, FiniteSets, TLC

(***************************************************************************)
(* Bounds of the model.                                                    *)
(***************************************************************************)
\* Largest number of labels in a generated DNS question name.
MaxLabels == 2
\* Largest length of one generated DNS label.
MaxLabelLen == 2
\* Largest length of a generated form value.
MaxValueLen == 3

(***************************************************************************)
(* Python string and slice primitives used by the source.                  *)
(***************************************************************************)
Min(a, b) == IF a < b THEN a ELSE b

\* s[i:j] for 0-based i, j with Python's clipping to the sequence.
Slice(s, i, j) == SubSeq(s, Min(i, Len(s)) + 1, Min(j, Len(s)))

\* s[i:]
SliceFrom(s, i) == Slice(s, i, Len(s))

\* Whether pat occurs in s at 0-based offset i.
MatchAt(s, pat, i) == /\ i + Len(pat) <= Len(s)
                      /\ SubSeq(s, i + 1, i + Len(pat)) = pat

\* pat in s
Contains(s, pat) == \E i \in 0..Len(s) : MatchAt(s, pat, i)

\* s.find(pat): offset of the first occurrence, or -1.
Find(s, pat) ==
    IF Contains(s, pat)
    THEN CHOOSE i \in 0..Len(s) :
            /\ MatchAt(s, pat, i)
            /\ \A j \in 0..(i - 1) : ~MatchAt(s, pat, j)
    ELSE -1

\* s.split(sep): the pieces between successive occurrences of sep.
RECURSIVE Split(_, _)
Split(s, sep) ==
    LET i == Find(s, sep)
    IN  IF i < 0 THEN <<s>>
        ELSE <<Slice(s, 0, i)>> \o Split(SliceFrom(s, i + Len(sep)), sep)

\* s.split(sep, 1): at most one split.
SplitOnce(s, sep) ==
    LET i == Find(s, sep)
    IN  IF i < 0 THEN <<s>>
        ELSE <<Slice(s, 0, i), SliceFrom(s, i + Len(sep))>>

\* s.replace(pat, rep): left to right, non-overlapping.
RECURSIVE Replace(_, _, _)
Replace(s, pat, rep) ==
    LET i == Find(s, pat)
    IN  IF i < 0 THEN s
        ELSE Slice(s, 0, i) \o rep \o Replace(SliceFrom(s, i + Len(pat)), pat, rep)

(***************************************************************************)
(* The DNS redirector: NetworkManagerDNS.                                  *)
(***************************************************************************)
\* self.dns_ip, the portal address the redirector answers with.
dns_ip == <<"1","9","2",".","1","6","8",".","4",".","1">>

DigitValue(c) ==
    CASE c = "0" -> 0 [] c = "1" -> 1 [] c = "2" -> 2 [] c = "3" -> 3
      [] c = "4" -> 4 [] c = "5" -> 5 [] c = "6" -> 6 [] c = "7" -> 7
      [] c = "8" -> 8 [] c = "9" -> 9

\* The value of a string of decimal digits.
RECURSIVE DecimalValue(_)
DecimalValue(s) ==
    IF s = <<>> THEN 0
    ELSE 10 * DecimalValue(SubSeq(s, 1, Len(s) - 1)) + DigitValue(s[Len(s)])

\* socket.inet_aton: the four octets of a dotted-quad address.
inet_aton(addr) ==
    LET parts == Split(addr, <<".">>)
    IN  [k \in 1..Len(parts) |-> DecimalValue(parts[k])]

\* bytes.decode() accepts a byte string only when it is well-formed UTF-8:
\* a byte below 0x80, or a lead byte followed by its continuation bytes.
IsCont(b) == b >= 128 /\ b <= 191

RECURSIVE Utf8Ok(_)
Utf8Ok(bs) ==
    IF bs = <<>> THEN TRUE
    ELSE LET c == bs[1]
             need == IF c < 128 THEN 0
                     ELSE IF c >= 194 /\ c <= 223 THEN 1
                     ELSE IF c >= 224 /\ c <= 239 THEN 2
                     ELSE IF c >= 240 /\ c <= 244 THEN 3
                     ELSE -1
         IN  /\ need >= 0
             /\ Len(bs) >= 1 + need
             /\ \A k \in 2..(1 + need) : IsCont(bs[k])
             /\ Utf8Ok(SubSeq(bs, 2 + need, Len(bs)))

\* _decode_domain_name from 0-based offset i: the labels read, and whether
\* the walk raised: an index past the section (IndexError) or a label that
\* does not decode (UnicodeError).
RECURSIVE DecodeFrom(_, _)
DecodeFrom(query_section, i) ==
    IF i >= Len(query_section) THEN [raised |-> TRUE, parts |-> <<>>]
    ELSE IF query_section[i + 1] = 0 THEN [raised |-> FALSE, parts |-> <<>>]
    ELSE LET length == query_section[i + 1]
             label  == Slice(query_section, i + 1, i + 1 + length)
             rest   == DecodeFrom(query_section, i + 1 + length)
         IN  IF ~Utf8Ok(label) THEN [raised |-> TRUE, parts |-> <<>>]
             ELSE [raised |-> rest.raised, parts |-> <<label>> \o rest.parts]

_decode_domain_name(query_section) == DecodeFrom(query_section, 0)

\* A mutated answer builder: the flags word is written as 0x8100.
handle_dns_query_flags(data) ==
    LET query_section == SliceFrom(data, 12)
    IN  IF _decode_domain_name(query_section).raised THEN <<>>
        ELSE Slice(data, 0, 2) \o <<129, 0>> \o Slice(data, 4, 6)
             \o <<0, 1>> \o <<0, 0>> \o <<0, 0>> \o query_section
             \o <<192, 12>> \o <<0, 1>> \o <<0, 1>> \o <<0, 0, 0, 60>>
             \o <<0, 4>> \o inet_aton(dns_ip)

\* handle_dns_query: the answer datagram, or the empty response when the
\* try block raises.
handle_dns_query(data) ==
    LET transaction_id == Slice(data, 0, 2)
        flags          == <<129, 128>>
        question_count == Slice(data, 4, 6)
        answer_count   == <<0, 1>>
        authority_rrs  == <<0, 0>>
        additional_rrs == <<0, 0>>
        query_section  == SliceFrom(data, 12)
        domain_name    == _decode_domain_name(query_section)
        answer_name    == <<192, 12>>
        answer_type    == <<0, 1>>
        answer_class   == <<0, 1>>
        ttl            == <<0, 0, 0, 60>>
        data_length    == <<0, 4>>
        answer_ip      == inet_aton(dns_ip)
    IN  IF domain_name.raised THEN <<>>
        ELSE transaction_id \o flags \o question_count \o answer_count
             \o authority_rrs \o additional_rrs \o query_section
             \o answer_name \o answer_type \o answer_class \o ttl
             \o data_length \o answer_ip

(***************************************************************************)
(* The captive-portal router: request text, routes and form decoding.      *)
(***************************************************************************)
GET_generate_204 == <<"G","E","T"," ","/","g","e","n","e","r","a","t","e","_","2","0","4">>
GET_connectivity_check == <<"G","E","T"," ","/","c","o","n","n","e","c","t","i","v","i","t","y","-","c","h","e","c","k">>
GET_hotspot_detect == <<"G","E","T"," ","/","h","o","t","s","p","o","t","-","d","e","t","e","c","t",".","h","t","m","l">>
GET_success_conf == <<"G","E","T"," ","/","s","u","c","c","e","s","s",".","c","o","n","f">>
GET_ncsi_conf == <<"G","E","T"," ","/","n","c","s","i",".","c","o","n","f">>
GET_scan == <<"G","E","T"," ","/","s","c","a","n">>
POST_connect == <<"P","O","S","T"," ","/","c","o","n","n","e","c","t">>
POST_reconnect == <<"P","O","S","T"," ","/","r","e","c","o","n","n","e","c","t">>
GET_root == <<"G","E","T"," ","/">>
HTTP11 == <<" ","H","T","T","P","/","1",".","1">>
CRLF == <<"\r","\n">>
KeySsid == <<"s","s","i","d">>
KeyPassword == <<"p","a","s","s","w","o","r","d">>

\* The route tests of handle_request in their order: the pattern looked up
\* in the decoded request text and the branch taken when it is found.
RouteTable == <<
    [pattern |-> GET_generate_204,       route |-> "generate_204"],
    [pattern |-> GET_connectivity_check, route |-> "connectivity-check"],
    [pattern |-> GET_hotspot_detect,     route |-> "hotspot-detect"],
    [pattern |-> GET_success_conf,       route |-> "success.conf"],
    [pattern |-> GET_ncsi_conf,          route |-> "ncsi.conf"],
    [pattern |-> GET_scan,               route |-> "scan"],
    [pattern |-> POST_connect,           route |-> "connect"],
    [pattern |-> POST_reconnect,         route |-> "reconnect"] >>

\* The if/elif chain of handle_request from its k-th test on.
RECURSIVE RouteFrom(_, _)
RouteFrom(text, k) ==
    IF k > Len(RouteTable) THEN "index"
    ELSE IF Contains(text, RouteTable[k].pattern) THEN RouteTable[k].route
    ELSE RouteFrom(text, k + 1)

\* The branch handle_request takes for a request.
Route(request) == RouteFrom(request, 1)

NoResp == [status |-> "none", ctype |-> "none", body |-> "none"]

\* The responses handle_request builds without calling into the manager.
StaticResponse(route) ==
    CASE route = "generate_204" ->
            [status |-> "204 No Content", ctype |-> "none", body |-> ""]
      [] route = "connectivity-check" ->
            [status |-> "204 No Content", ctype |-> "none", body |-> ""]
      [] route = "hotspot-detect" ->
            [status |-> "200 OK", ctype |-> "text/html", body |-> "Success"]
      [] route = "success.conf" ->
            [status |-> "200 OK", ctype |-> "text/plain", body |-> "Microsoft Connect Test"]
      [] route = "ncsi.conf" ->
            [status |-> "200 OK", ctype |-> "text/plain", body |-> "Microsoft NCSI"]

\* An HTML page of the portal, named by its heading.
HtmlPage(page) == [status |-> "200 OK", ctype |-> "text/html", body |-> page]

\* The (key, value) pairs connect_to_wifi stores into params, in order.
RECURSIVE PairsOf(_)
PairsOf(kvs) ==
    IF kvs = <<>> THEN <<>>
    ELSE LET kv == Head(kvs)
         IN  IF Contains(kv, <<"=">>)
             THEN LET pr == SplitOnce(kv, <<"=">>)
                  IN  << <<pr[1], Replace(Replace(pr[2], <<"+">>, <<" ">>),
                                          <<"%","2","0">>, <<" ">>)>> >>
                      \o PairsOf(Tail(kvs))
             ELSE PairsOf(Tail(kvs))

\* A mutated form decoding: the body is taken from the separator on.
FormParams_from_separator(request) ==
    LET body_start == Find(request, CRLF \o CRLF)
        body       == SliceFrom(request, body_start)
    IN  PairsOf(Split(body, <<"&">>))

FormParams(request) ==
    LET body_start == Find(request, CRLF \o CRLF) + 4
        body       == SliceFrom(request, body_start)
    IN  PairsOf(Split(body, <<"&">>))

\* params.get(key, ""): the last value stored under key.
RECURSIVE ParamGet(_, _)
ParamGet(params, key) ==
    IF params = <<>> THEN <<>>
    ELSE LET last == params[Len(params)]
         IN  IF last[1] = key THEN last[2]
             ELSE ParamGet(SubSeq(params, 1, Len(params) - 1), key)

\* The ssid and password connect_to_wifi decodes from a request.
FormCred(request) ==
    [ssid     |-> ParamGet(FormParams(request), KeySsid),
     password |-> ParamGet(FormParams(request), KeyPassword)]

(***************************************************************************)
(* Inputs of the model.                                                    *)
(***************************************************************************)
Cred(ssid, password) == [ssid |-> ssid, password |-> password]
NoCred == Cred(<<>>, <<>>)

HomeCred == Cred(<<"h","o","m","e">>, <<"p","w","1">>)
CafeCred == Cred(<<"c","a","f","e">>, <<"p","w","2">>)

\* The networks in range, with the password each accepts.
Networks == {HomeCred, CafeCred}

\* The credential record: the file /config/network_config.conf.
NoFile == [exists |-> FALSE, ssid |-> <<>>, password |-> <<>>]
FileOf(c) == [exists |-> TRUE, ssid |-> c.ssid, password |-> c.password]

\* The records the device may hold when it boots.
InitialStores == {NoFile, FileOf(HomeCred), FileOf(Cred(<<>>, <<"p","w","1">>))}

\* The access-point passwords the manager may be constructed with: the
\* default "password" and a 7-character one.
ApPasswords == { <<"p","a","s","s","w","o","r","d">>,
                 <<"p","a","s","s","w","o","r">> }

BodyHome == <<"s","s","i","d","=","h","o","m","e","&","p","a","s","s","w","o","r","d","=","p","w","1">>
BodyCafe == <<"s","s","i","d","=","c","a","f","e","&","p","a","s","s","w","o","r","d","=","p","w","2">>
BodyNoPassword == <<"s","s","i","d","=","h","o","m","e","&","p","a","s","s","w","o","r","d","=">>
BodyScanText == <<"s","s","i","d","=","h","o","m","e","&","p","a","s","s","w","o","r","d","=","G","E","T"," ","/","s","c","a","n">>

\* A request: request line, blank line, body.
Request(line, body) == line \o HTTP11 \o CRLF \o CRLF \o body

\* The requests portal clients send.
Requests == { Request(GET_generate_204, <<>>),
              Request(GET_scan, <<>>),
              Request(GET_root, <<>>),
              Request(POST_connect, BodyHome),
              Request(POST_connect, BodyCafe),
              Request(POST_connect, BodyNoPassword),
              Request(POST_connect, BodyScanText),
              Request(POST_reconnect, <<>>) }

\* What handle_request and connect_to_wifi compute from each of them.
RouteOf == [req \in Requests |-> Route(req)]
FormCredOf == [req \in Requests |-> FormCred(req)]

\* The datagrams the DNS receive loop is fed while the manager runs: a
\* query for the name "a" and a datagram cut short inside its header.
DnsSample == { <<171, 205, 1, 0, 0, 1, 0, 0, 0, 0, 0, 0, 1, 97, 0, 0, 1, 0, 1>>,
               <<171, 205, 1, 0>> }

\* The answer handle_dns_query gives to each of them.
DnsAnswerOf == [d \in DnsSample |-> handle_dns_query(d)]

\* The number of portal requests handled at once under Spec; SpecConc
\* admits one more, so that two handlers interleave.
NumHandlers == 1
Handlers == 1..NumHandlers
Slots == 1..(NumHandlers + 1)

\* DNS question names: the bytes a label is made of, the labels, and the
\* names of up to MaxLabels labels.
LabelBytes == {0, 97, 255}

RECURSIVE ByteStrings(_)
ByteStrings(n) ==
    IF n = 0 THEN {<<>>}
    ELSE ByteStrings(n - 1)
         \cup {<<b>> \o t : b \in LabelBytes, t \in {u \in ByteStrings(n - 1) : Len(u) = n - 1}}

\* Every byte string of 1..MaxLabelLen sample bytes, and the two-byte
\* UTF-8 encoding of U+00E9.
Labels == (ByteStrings(MaxLabelLen) \ {<<>>}) \cup {<<195, 169>>}

RECURSIVE EncodedNames(_)
EncodedNames(n) ==
    IF n = 0 THEN {<<>>}
    ELSE EncodedNames(n - 1)
         \cup {<<Len(l)>> \o l \o t : l \in Labels, t \in EncodedNames(n - 1)}

TransactionIds == {<<0, 0>>, <<171, 205>>}

\* A well-formed query: header, name, zero byte, type A, class IN.
Queries == {tx \o <<1, 0, 0, 1, 0, 0, 0, 0, 0, 0>> \o name \o <<0>> \o <<0, 1, 0, 1>> :
               tx \in TransactionIds, name \in EncodedNames(MaxLabels)}

\* What may arrive on the socket: a query, or a query cut short.
Datagrams == UNION {{SubSeq(q, 1, n) : n \in 0..Len(q)} : q \in Queries}

\* Form bodies: the characters a generated value is made of, the values
\* (every text of up to MaxValueLen of these characters, and the two
\* values ssid=My+Wifi&password=pa%20ss carries), the keys, and the bodies.
FormAlphabet == {"a", "+", "%", "2", "0", "="}

RECURSIVE TextsUpTo(_)
TextsUpTo(n) ==
    IF n = 0 THEN {<<>>}
    ELSE TextsUpTo(n - 1)
         \cup {<<c>> \o t : c \in FormAlphabet, t \in {u \in TextsUpTo(n - 1) : Len(u) = n - 1}}

ExampleSsid == <<"M","y","+","W","i","f","i">>
ExamplePassword == <<"p","a","%","2","0","s","s">>

FormValues == TextsUpTo(MaxValueLen) \cup {ExampleSsid, ExamplePassword}

FormKeys == {KeySsid, KeyPassword, <<"a","+">>, <<"%","2","0">>}

FormBodies ==
    {KeySsid \o <<"=">> \o v \o <<"&">> \o KeyPassword \o <<"=">> \o w :
        v \in FormValues, w \in {ExamplePassword, <<"p","w","1">>, <<>>}}
    \cup {k \o <<"=">> \o v : k \in FormKeys, v \in FormValues}
    \cup {t \o <<"&">> \o KeySsid \o <<"=">> \o v : t \in {<<"a">>, <<>>}, v \in FormValues}
    \cup {KeySsid \o <<"=">> \o <<"a">> \o CRLF \o CRLF \o <<"&">> \o KeyPassword \o <<"=">> \o <<"a">>}

\* The POST /connect requests handed to the form decoding.
FormRequests == {Request(POST_connect, b) : b \in FormBodies}

(***************************************************************************)
(* State.                                                                  *)
(***************************************************************************)
VARIABLES
    sta_active,      \* sta_if.active()
    sta_link,        \* sta_if.isconnected()
    sta_cred,        \* the credentials of the last sta_if.connect()
    ap_active,       \* ap_if.active()
    ap_link,         \* ap_if.isconnected()
    ap_essid,        \* the essid/password configured on ap_if
    ip_address,      \* self.ip_address: "None", "sta" or "ap"
    server,          \* self.server: "None", "portal" or "app"
    portal_live,     \* the captive-portal listener is listening
    app_live,        \* the station web server is listening
    udp_server,      \* dns_server.udp_server: "None", "bound" or "closed"
    store,           \* the credential record
    ap_password,     \* self.ap_password
    sta_web_server,  \* whether a station web server was passed in
    run_pc,          \* position of the run() task
    lc_ret,          \* which call of load_config run() is in
    lc_cred,         \* ssid, password read by load_config
    attempts,        \* attempts of load_config
    stop_log,        \* the stop operations the cleanup of run() has called
    hpc,             \* position of each request handler
    hreq,            \* the request each handler read
    hroute,          \* the branch of handle_request each handler took
    hresp,           \* the response each handler has built
    hsent,           \* the response each handler has written
    dns_in,          \* the datagram last received on the DNS socket
    dns_answered,    \* whether handle_dns_query has returned for it
    dns_out,         \* the answer handle_dns_query returned
    cancelled,       \* whether the run() task has been cancelled
    hlog,            \* what the finally clause of connect_to_wifi has done
    form_request,    \* a request text handed to the form decoding
    form_decoded     \* what the form decoding made of it

sta_vars == <<sta_active, sta_link, sta_cred>>
ap_vars  == <<ap_active, ap_link, ap_essid>>
srv_vars == <<server, portal_live, app_live>>
cfg_vars == <<ap_password, sta_web_server>>
run_vars == <<run_pc, lc_ret, lc_cred, attempts, stop_log, cancelled>>
h_vars   == <<hpc, hreq, hroute, hresp, hsent, hlog>>
dns_vars == <<dns_in, dns_answered, dns_out>>
form_vars == <<form_request, form_decoded>>

vars == <<sta_vars, ap_vars, ip_address, srv_vars, udp_server, store,
          cfg_vars, run_vars, h_vars, dns_vars, form_vars>>

\* Nothing has been handed to the form decoding.
NotDecoded == [decoded |-> FALSE, params |-> <<>>, cred |-> NoCred]

\* The state after NetworkManager.__init__.
Constructed ==
    /\ sta_active = FALSE /\ sta_link = FALSE /\ sta_cred = NoCred
    /\ ap_active = FALSE /\ ap_link = FALSE /\ ap_essid = "unset"
    /\ ip_address = "None"
    /\ server = "None" /\ portal_live = FALSE /\ app_live = FALSE
    /\ udp_server = "None"
    /\ store \in InitialStores
    /\ ap_password \in ApPasswords
    /\ sta_web_server \in BOOLEAN
    /\ run_pc = "start" /\ lc_ret = "init" /\ lc_cred = NoCred
    /\ attempts = 0 /\ stop_log = <<>> /\ cancelled = FALSE
    /\ hpc = [h \in Slots |-> "idle"]
    /\ hreq = [h \in Slots |-> <<>>]
    /\ hroute = [h \in Slots |-> "none"]
    /\ hresp = [h \in Slots |-> NoResp]
    /\ hsent = [h \in Slots |-> NoResp]
    /\ hlog = [h \in Slots |-> <<>>]

Init ==
    /\ Constructed
    /\ dns_in = <<>> /\ dns_answered = FALSE /\ dns_out = <<>>
    /\ form_request = <<>> /\ form_decoded = NotDecoded

(***************************************************************************)
(* Cooperative scheduling: a task runs until it awaits something that      *)
(* suspends it; only then does another task run.                           *)
(***************************************************************************)
\* Positions at which run() is suspended in an await (or has ended).
RunAwaits == {"start", "lc_read", "lc_websrv", "portal_loop", "dns_loop",
              "sleep3", "sleep01", "cl_app_wait", "cl_portal_wait", "done"}

\* Positions at which a handler is suspended in an await.
HandlerAwaits == {"idle", "cw_wait", "cw_save", "cw_closing", "cw_app", "close"}

RunMayStep == \A h \in Slots : hpc[h] \in HandlerAwaits

HandlerMayStep(h) ==
    /\ run_pc \in RunAwaits
    /\ \A g \in Slots \ {h} : hpc[g] \in HandlerAwaits

(***************************************************************************)
(* The radios and the networks around the device.                          *)
(***************************************************************************)
\* The station joins the network it was told to connect to.
LinkUp ==
    /\ sta_active /\ ~sta_link /\ sta_cred \in Networks
    /\ sta_link' = TRUE
    /\ UNCHANGED <<sta_active, sta_cred, ap_vars, ip_address, srv_vars,
                   udp_server, store, cfg_vars, run_vars, h_vars, dns_vars, form_vars>>

\* The station loses its link.
LinkDown ==
    /\ sta_link
    /\ sta_link' = FALSE
    /\ sta_cred' = NoCred
    /\ UNCHANGED <<sta_active, ap_vars, ip_address, srv_vars,
                   udp_server, store, cfg_vars, run_vars, h_vars, dns_vars, form_vars>>

\* A client associates with the access point: ap_if.isconnected() turns true.
ApJoin ==
    /\ ap_active /\ ~ap_link
    /\ ap_link' = TRUE
    /\ UNCHANGED <<sta_vars, ap_active, ap_essid, ip_address, srv_vars,
                   udp_server, store, cfg_vars, run_vars, h_vars, dns_vars, form_vars>>

\* The last client leaves the access point.
ApLeave ==
    /\ ap_link
    /\ ap_link' = FALSE
    /\ UNCHANGED <<sta_vars, ap_active, ap_essid, ip_address, srv_vars,
                   udp_server, store, cfg_vars, run_vars, h_vars, dns_vars, form_vars>>

(***************************************************************************)
(* Operations of the manager that run without suspending; each is a part   *)
(* of the step of the task that calls it.                                  *)
(***************************************************************************)
\* stop_ap: returns at once unless ap_if.isconnected().
stop_ap ==
    IF ~ap_link
    THEN UNCHANGED <<ap_vars, ip_address>>
    ELSE /\ ap_essid' = "cleared"
         /\ ap_active' = FALSE
         /\ ap_link' = FALSE
         /\ ip_address' = "None"

\* stop_dns: closes and forgets the socket when there is one.
stop_dns == udp_server' = IF udp_server # "None" THEN "None" ELSE udp_server

\* self.server.close() of stop_captive_portal_server: closes whichever
\* listener self.server refers to.
server_close ==
    /\ portal_live' = (portal_live /\ server # "portal")
    /\ app_live' = (app_live /\ server # "app")
    /\ UNCHANGED server

\* sta_if.active(False)
sta_off == sta_active' = FALSE /\ sta_link' = FALSE /\ sta_cred' = NoCred

\* sta_if.active(True); sta_if.connect(ssid, password)
sta_connect(c) == sta_active' = TRUE /\ sta_link' = FALSE /\ sta_cred' = c

(***************************************************************************)
(* load_config, as run() calls it.  The radio changes state while the task *)
(* sleeps in its polling loop (or is suspended), not between two           *)
(* statements that follow each other without a sleep.                      *)
(***************************************************************************)
LcPcs == {"lc_open", "lc_read", "lc_wait", "lc_websrv"}

\* Where run() continues when load_config returns.
LcReturn == run_pc' = IF lc_ret = "init" THEN "loop" ELSE "after_lc"

\* if self.config_file in uos.listdir(...): ... else: print; return
LcOpen ==
    /\ run_pc = "lc_open" /\ RunMayStep
    /\ IF store.exists THEN run_pc' = "lc_read" ELSE LcReturn
    /\ UNCHANGED <<sta_vars, ap_vars, ip_address, srv_vars, udp_server, store,
                   cfg_vars, lc_ret, lc_cred, attempts, stop_log, cancelled, h_vars, dns_vars, form_vars>>

\* A load_config without the test of the ssid it read.
LcRead_unchecked ==
    /\ run_pc = "lc_read" /\ RunMayStep
    /\ run_pc' = "lc_wait"
    /\ lc_cred' = Cred(store.ssid, store.password)
    /\ attempts' = 0
    /\ sta_connect(Cred(store.ssid, store.password))
    /\ UNCHANGED <<ap_vars, ip_address, srv_vars, udp_server, store,
                   cfg_vars, lc_ret, stop_log, cancelled, h_vars, dns_vars, form_vars>>

\* await config.read_async(); ssid, password; if not ssid: return;
\* attempts = 0; first turn of the loop: active(True); connect(ssid, password)
LcRead ==
    /\ run_pc = "lc_read" /\ RunMayStep
    /\ IF store.ssid = <<>>
       THEN LcReturn /\ UNCHANGED <<sta_vars, lc_cred, attempts>>
       ELSE /\ run_pc' = "lc_wait"
            /\ lc_cred' = Cred(store.ssid, store.password)
            /\ attempts' = 0
            /\ sta_connect(Cred(store.ssid, store.password))
    /\ UNCHANGED <<ap_vars, ip_address, srv_vars, udp_server, store,
                   cfg_vars, lc_ret, stop_log, cancelled, h_vars, dns_vars, form_vars>>

\* The polling loop ends with the link up: the IP is captured and the
\* station web server, when there is one, is started; without one the
\* loop is left and load_config returns.
LcConnected ==
    /\ run_pc = "lc_wait" /\ RunMayStep
    /\ sta_link
    /\ ip_address' = "sta"
    /\ IF sta_web_server
       THEN run_pc' = "lc_websrv" /\ UNCHANGED lc_cred
       ELSE LcReturn /\ lc_cred' = NoCred
    /\ UNCHANGED <<sta_vars, ap_vars, srv_vars, udp_server, store,
                   cfg_vars, lc_ret, attempts, stop_log, cancelled, h_vars, dns_vars, form_vars>>

\* A load_config that allows a fourth attempt.
LcTimeout_four_attempts ==
    /\ run_pc = "lc_wait" /\ RunMayStep
    /\ ~sta_link
    /\ attempts' = attempts + 1
    /\ IF attempts + 1 < 4
       THEN sta_connect(lc_cred) /\ run_pc' = "lc_wait" /\ UNCHANGED lc_cred
       ELSE sta_off /\ LcReturn /\ lc_cred' = NoCred
    /\ UNCHANGED <<ap_vars, ip_address, srv_vars, udp_server, store,
                   cfg_vars, lc_ret, stop_log, cancelled, h_vars, dns_vars, form_vars>>

\* The polling loop ends on its deadline: attempts += 1; while fewer than
\* 3 attempts were made the connect is issued again, otherwise the radio
\* is deactivated and load_config returns.
LcTimeout ==
    /\ run_pc = "lc_wait" /\ RunMayStep
    /\ ~sta_link
    /\ attempts' = attempts + 1
    /\ IF attempts + 1 < 3
       THEN sta_connect(lc_cred) /\ run_pc' = "lc_wait" /\ UNCHANGED lc_cred
       ELSE sta_off /\ LcReturn /\ lc_cred' = NoCred
    /\ UNCHANGED <<ap_vars, ip_address, srv_vars, udp_server, store,
                   cfg_vars, lc_ret, stop_log, cancelled, h_vars, dns_vars, form_vars>>

\* self.server = await self.sta_web_server.run(); break;
\* if not self.sta_if.isconnected(): self.sta_if.active(False)
LcWebServer ==
    /\ run_pc = "lc_websrv" /\ RunMayStep
    /\ server' = "app"
    /\ app_live' = TRUE
    /\ IF ~sta_link THEN sta_off ELSE UNCHANGED sta_vars
    /\ LcReturn
    /\ lc_cred' = NoCred
    /\ UNCHANGED <<ap_vars, ip_address, portal_live, udp_server, store,
                   cfg_vars, lc_ret, attempts, stop_log, cancelled, h_vars, dns_vars, form_vars>>

(***************************************************************************)
(* run(): start-up and the monitoring loop.                                *)
(***************************************************************************)
\* print the version; network.hostname(...); await self.load_config()
RunStart ==
    /\ run_pc = "start" /\ RunMayStep
    /\ run_pc' = "lc_open"
    /\ lc_ret' = "init"
    /\ UNCHANGED <<sta_vars, ap_vars, ip_address, srv_vars, udp_server, store,
                   cfg_vars, lc_cred, attempts, stop_log, cancelled, h_vars, dns_vars, form_vars>>

\* network.hostname(self.hostname) raises: "except Exception" of run()
\* prints the error and the finally clause cleans up; the loop is never
\* entered.
HostnameRaises ==
    /\ run_pc = "start" /\ RunMayStep
    /\ run_pc' = "cl_app"
    /\ UNCHANGED <<sta_vars, ap_vars, ip_address, srv_vars, udp_server, store,
                   cfg_vars, lc_ret, lc_cred, attempts, stop_log, cancelled, h_vars, dns_vars, form_vars>>

\* Top of the loop: if not connected, call load_config again.
RunLoop ==
    /\ run_pc = "loop" /\ RunMayStep
    /\ IF ~sta_link
       THEN run_pc' = "lc_open" /\ lc_ret' = "loop"
       ELSE run_pc' = "loop_chk" /\ UNCHANGED lc_ret
    /\ UNCHANGED <<sta_vars, ap_vars, ip_address, srv_vars, udp_server, store,
                   cfg_vars, lc_cred, attempts, stop_log, cancelled, h_vars, dns_vars, form_vars>>

\* After the reload: if still not connected, switch to AP mode.
RunAfterLoad ==
    /\ run_pc = "after_lc" /\ RunMayStep
    /\ run_pc' = IF ~sta_link THEN "start_ap" ELSE "loop_chk"
    /\ UNCHANGED <<sta_vars, ap_vars, ip_address, srv_vars, udp_server, store,
                   cfg_vars, lc_ret, lc_cred, attempts, stop_log, cancelled, h_vars, dns_vars, form_vars>>

\* A start_ap without the password-length check.
start_ap_unchecked ==
    /\ run_pc = "start_ap" /\ RunMayStep
    /\ ap_essid' = "set" /\ ap_active' = TRUE /\ ip_address' = "ap"
    /\ UNCHANGED ap_link
    /\ run_pc' = "portal_start"
    /\ UNCHANGED <<sta_vars, srv_vars, udp_server, store,
                   cfg_vars, lc_ret, lc_cred, attempts, stop_log, cancelled, h_vars, dns_vars, form_vars>>

\* start_ap: password check, then configure, activate and take the AP's IP.
start_ap ==
    /\ run_pc = "start_ap" /\ RunMayStep
    /\ IF Len(ap_password) < 8
       THEN UNCHANGED <<ap_vars, ip_address>>
       ELSE /\ ap_essid' = "set" /\ ap_active' = TRUE /\ ip_address' = "ap"
            /\ UNCHANGED ap_link
    /\ run_pc' = "portal_start"
    /\ UNCHANGED <<sta_vars, srv_vars, udp_server, store,
                   cfg_vars, lc_ret, lc_cred, attempts, stop_log, cancelled, h_vars, dns_vars, form_vars>>

\* start_captive_portal_server: the listener is started and the call never
\* returns: it sleeps in "while True: await asyncio.sleep(1)".
PortalStartOk ==
    /\ run_pc = "portal_start" /\ RunMayStep
    /\ ip_address # "None"
    /\ server' = "portal"
    /\ portal_live' = TRUE
    /\ run_pc' = "portal_loop"
    /\ UNCHANGED <<sta_vars, ap_vars, ip_address, app_live, udp_server, store,
                   cfg_vars, lc_ret, lc_cred, attempts, stop_log, cancelled, h_vars, dns_vars, form_vars>>

\* start_captive_portal_server returns: no IP address is stored, or
\* asyncio.start_server raised (the address or port cannot be bound).
PortalStartFail ==
    /\ run_pc = "portal_start" /\ RunMayStep
    /\ run_pc' = "dns_start"
    /\ UNCHANGED <<sta_vars, ap_vars, ip_address, srv_vars, udp_server, store,
                   cfg_vars, lc_ret, lc_cred, attempts, stop_log, cancelled, h_vars, dns_vars, form_vars>>

\* start_dns: the socket is bound and the receive loop entered.
DnsStartOk ==
    /\ run_pc = "dns_start" /\ RunMayStep
    /\ udp_server' = "bound"
    /\ run_pc' = "dns_loop"
    /\ UNCHANGED <<sta_vars, ap_vars, ip_address, srv_vars, store,
                   cfg_vars, lc_ret, lc_cred, attempts, stop_log, cancelled, h_vars, dns_vars, form_vars>>

\* start_dns: bind raised; the finally clause closes the socket, the
\* reference stays, and start_dns returns.
DnsStartFail ==
    /\ run_pc = "dns_start" /\ RunMayStep
    /\ udp_server' = "closed"
    /\ run_pc' = "loop_chk"
    /\ UNCHANGED <<sta_vars, ap_vars, ip_address, srv_vars, store,
                   cfg_vars, lc_ret, lc_cred, attempts, stop_log, cancelled, h_vars, dns_vars, form_vars>>

\* One turn of the receive loop: a datagram is answered.
DnsServe ==
    /\ run_pc = "dns_loop" /\ RunMayStep
    /\ \E d \in DnsSample :
          /\ dns_in' = d
          /\ dns_answered' = TRUE
          /\ dns_out' = DnsAnswerOf[d]
    /\ UNCHANGED <<sta_vars, ap_vars, ip_address, srv_vars, udp_server, store,
                   cfg_vars, run_vars, h_vars, form_vars>>

\* if not sta connected and not ap connected: sleep(3); continue
\* otherwise sleep(0.1)
RunCheck ==
    /\ run_pc = "loop_chk" /\ RunMayStep
    /\ run_pc' = IF ~sta_link /\ ~ap_link THEN "sleep3" ELSE "sleep01"
    /\ UNCHANGED <<sta_vars, ap_vars, ip_address, srv_vars, udp_server, store,
                   cfg_vars, lc_ret, lc_cred, attempts, stop_log, cancelled, h_vars, dns_vars, form_vars>>

\* The sleep ends.
RunWake ==
    /\ run_pc \in {"sleep3", "sleep01"} /\ RunMayStep
    /\ run_pc' = "loop"
    /\ UNCHANGED <<sta_vars, ap_vars, ip_address, srv_vars, udp_server, store,
                   cfg_vars, lc_ret, lc_cred, attempts, stop_log, cancelled, h_vars, dns_vars, form_vars>>

(***************************************************************************)
(* run(): shutdown.  The task is cancelled while it is suspended; the      *)
(* cancellation is no Exception, so only the finally clause runs.          *)
(***************************************************************************)
CancelPoints == {"lc_read", "lc_websrv", "portal_loop", "dns_loop",
                 "sleep3", "sleep01"}

\* The cancellation reaches run(); on its way out of start_dns the finally
\* clause there closes the socket.
Shutdown ==
    /\ run_pc \in CancelPoints /\ RunMayStep
    /\ udp_server' = IF run_pc = "dns_loop" THEN "closed" ELSE udp_server
    /\ run_pc' = "cl_app"
    /\ lc_cred' = NoCred
    /\ cancelled' = TRUE
    /\ UNCHANGED <<sta_vars, ap_vars, ip_address, srv_vars, store,
                   cfg_vars, lc_ret, attempts, stop_log, h_vars, dns_vars, form_vars>>

\* if self.sta_web_server: await self.sta_web_server.stop_server()
CleanupApp ==
    /\ run_pc = "cl_app" /\ RunMayStep
    /\ IF sta_web_server
       THEN run_pc' = "cl_app_wait" /\ stop_log' = Append(stop_log, "app")
       ELSE run_pc' = "cl_sta" /\ UNCHANGED stop_log
    /\ UNCHANGED <<sta_vars, ap_vars, ip_address, srv_vars, udp_server, store,
                   cfg_vars, lc_ret, lc_cred, attempts, cancelled, h_vars, dns_vars, form_vars>>

\* stop_server() returns: the station web server no longer listens.
CleanupAppStopped ==
    /\ run_pc = "cl_app_wait" /\ RunMayStep
    /\ app_live' = FALSE
    /\ run_pc' = "cl_sta"
    /\ UNCHANGED <<sta_vars, ap_vars, ip_address, server, portal_live, udp_server,
                   store, cfg_vars, lc_ret, lc_cred, attempts, stop_log, cancelled, h_vars,
                   dns_vars, form_vars>>

\* stop_server() raises: "except Exception as cleanup_error" ends the try
\* block; run() yields once and returns.
CleanupAppRaises ==
    /\ run_pc = "cl_app_wait" /\ RunMayStep
    /\ run_pc' = "done"
    /\ UNCHANGED <<sta_vars, ap_vars, ip_address, srv_vars, udp_server, store,
                   cfg_vars, lc_ret, lc_cred, attempts, stop_log, cancelled, h_vars, dns_vars, form_vars>>

\* if self.sta_if.isconnected(): await self.disconnect_from_wifi()
CleanupStation ==
    /\ run_pc = "cl_sta" /\ RunMayStep
    /\ IF sta_link
       THEN /\ sta_off
            /\ ip_address' = "None"
            /\ stop_log' = Append(stop_log, "sta")
       ELSE UNCHANGED <<sta_vars, ip_address, stop_log>>
    /\ run_pc' = "cl_ap"
    /\ UNCHANGED <<ap_vars, srv_vars, udp_server, store,
                   cfg_vars, lc_ret, lc_cred, attempts, cancelled, h_vars, dns_vars, form_vars>>

\* if self.ap_if.isconnected(): stop_dns(); stop_captive_portal_server(),
\* which waits for the listener to close when self.server is set;
\* otherwise stop_ap() follows at once.
CleanupAp ==
    /\ run_pc = "cl_ap" /\ RunMayStep
    /\ IF ~ap_link
       THEN /\ run_pc' = "done"
            /\ UNCHANGED <<ap_vars, ip_address, srv_vars, udp_server, stop_log>>
       ELSE /\ stop_dns
            /\ IF server # "None"
               THEN /\ server_close
                    /\ run_pc' = "cl_portal_wait"
                    /\ stop_log' = stop_log \o <<"dns", "portal">>
                    /\ UNCHANGED <<ap_vars, ip_address>>
               ELSE /\ UNCHANGED srv_vars
                    /\ stop_ap
                    /\ run_pc' = "done"
                    /\ stop_log' = stop_log \o <<"dns", "portal", "ap">>
    /\ UNCHANGED <<sta_vars, store, cfg_vars, lc_ret, lc_cred, attempts,
                   cancelled, h_vars, dns_vars, form_vars>>

\* await self.server.wait_closed() returns; await self.stop_ap()
CleanupStopAp ==
    /\ run_pc = "cl_portal_wait" /\ RunMayStep
    /\ stop_ap
    /\ stop_log' = Append(stop_log, "ap")
    /\ run_pc' = "done"
    /\ UNCHANGED <<sta_vars, srv_vars, udp_server, store,
                   cfg_vars, lc_ret, lc_cred, attempts, cancelled, h_vars, dns_vars, form_vars>>

(***************************************************************************)
(* handle_request: one task per accepted connection.                       *)
(***************************************************************************)
\* A connection is accepted only while the portal listener is up and a
\* client is associated with the access point.
Accepting(h) ==
    /\ hpc[h] = "idle" /\ HandlerMayStep(h)
    /\ portal_live /\ ap_link

\* The detection endpoints and the index page: the response is built
\* without touching the manager.
HandleStatic(h) ==
    /\ Accepting(h)
    /\ \E req \in Requests :
          /\ RouteOf[req] \in {"generate_204", "connectivity-check", "hotspot-detect",
                             "success.conf", "ncsi.conf", "index"}
          /\ hreq' = [hreq EXCEPT ![h] = req]
          /\ hroute' = [hroute EXCEPT ![h] = RouteOf[req]]
          /\ hresp' = [hresp EXCEPT ![h] =
                          IF RouteOf[req] = "index"
                          THEN HtmlPage(IF store.exists THEN "Index with reconnect form"
                                        ELSE "Index")
                          ELSE StaticResponse(RouteOf[req])]
    /\ hsent' = [hsent EXCEPT ![h] = NoResp]
    /\ hlog' = [hlog EXCEPT ![h] = <<>>]
    /\ hpc' = [hpc EXCEPT ![h] = "write"]
    /\ UNCHANGED <<sta_vars, ap_vars, ip_address, srv_vars, udp_server, store,
                   cfg_vars, run_vars, dns_vars, form_vars>>

\* GET /scan: scan_networks activates the station radio, scans, and
\* deactivates it in its finally clause.
HandleScan(h) ==
    /\ Accepting(h)
    /\ \E req \in Requests :
          /\ RouteOf[req] = "scan"
          /\ hreq' = [hreq EXCEPT ![h] = req]
          /\ hroute' = [hroute EXCEPT ![h] = RouteOf[req]]
    /\ sta_off
    /\ hresp' = [hresp EXCEPT ![h] = HtmlPage("Network Scan")]
    /\ hsent' = [hsent EXCEPT ![h] = NoResp]
    /\ hlog' = [hlog EXCEPT ![h] = <<>>]
    /\ hpc' = [hpc EXCEPT ![h] = "write"]
    /\ UNCHANGED <<ap_vars, ip_address, srv_vars, udp_server, store,
                   cfg_vars, run_vars, dns_vars, form_vars>>

\* POST /connect: connect_to_wifi decodes the form; with both ssid and
\* password it activates the radio, connects and starts polling; otherwise
\* it deactivates the radio and returns the error page.
HandleConnect(h) ==
    /\ Accepting(h)
    /\ \E req \in Requests :
          /\ RouteOf[req] = "connect"
          /\ hreq' = [hreq EXCEPT ![h] = req]
          /\ hroute' = [hroute EXCEPT ![h] = RouteOf[req]]
          /\ LET c == FormCredOf[req]
             IN  IF c.ssid # <<>> /\ c.password # <<>>
                 THEN /\ sta_connect(c)
                      /\ hresp' = [hresp EXCEPT ![h] = NoResp]
                      /\ hpc' = [hpc EXCEPT ![h] = "cw_wait"]
                 ELSE /\ sta_off
                      /\ hresp' = [hresp EXCEPT ![h] = HtmlPage("Connection Error")]
                      /\ hpc' = [hpc EXCEPT ![h] = "write"]
    /\ hsent' = [hsent EXCEPT ![h] = NoResp]
    /\ hlog' = [hlog EXCEPT ![h] = <<>>]
    /\ UNCHANGED <<ap_vars, ip_address, srv_vars, udp_server, store,
                   cfg_vars, run_vars, dns_vars, form_vars>>

\* POST /reconnect: handle_request calls self.reconnect_to_wifi() without
\* the request argument the method requires; the call raises TypeError, the
\* except clause of handle_request prints it, and nothing is written.
HandleReconnect(h) ==
    /\ Accepting(h)
    /\ \E req \in Requests :
          /\ RouteOf[req] = "reconnect"
          /\ hreq' = [hreq EXCEPT ![h] = req]
          /\ hroute' = [hroute EXCEPT ![h] = RouteOf[req]]
    /\ hresp' = [hresp EXCEPT ![h] = NoResp]
    /\ hsent' = [hsent EXCEPT ![h] = NoResp]
    /\ hlog' = [hlog EXCEPT ![h] = <<>>]
    /\ hpc' = [hpc EXCEPT ![h] = "close"]
    /\ UNCHANGED <<sta_vars, ap_vars, ip_address, srv_vars, udp_server, store,
                   cfg_vars, run_vars, dns_vars, form_vars>>

\* connect_to_wifi: the polling loop ends with the link up; the IP is
\* captured, the success page built, and the finally clause, seeing the
\* link up, calls save_config.
ConnectLinked(h) ==
    /\ hpc[h] = "cw_wait" /\ HandlerMayStep(h)
    /\ sta_link
    /\ ip_address' = "sta"
    /\ hresp' = [hresp EXCEPT ![h] = HtmlPage("Connected")]
    /\ hpc' = [hpc EXCEPT ![h] = "cw_save"]
    /\ UNCHANGED <<sta_vars, ap_vars, srv_vars, udp_server, store,
                   cfg_vars, run_vars, hreq, hroute, hsent, hlog, dns_vars, form_vars>>

\* connect_to_wifi: the polling loop ends on its deadline; the radio is
\* deactivated and the failure page built.
ConnectTimeout(h) ==
    /\ hpc[h] = "cw_wait" /\ HandlerMayStep(h)
    /\ ~sta_link
    /\ sta_off
    /\ hresp' = [hresp EXCEPT ![h] = HtmlPage("Connection Failed")]
    /\ hpc' = [hpc EXCEPT ![h] = "write"]
    /\ UNCHANGED <<ap_vars, ip_address, srv_vars, udp_server, store,
                   cfg_vars, run_vars, hreq, hroute, hsent, hlog, dns_vars, form_vars>>

\* A connect_to_wifi in which a failed write of the record ends the finally
\* clause: no teardown, no station web server.
ConnectSave_fatal(h) ==
    /\ hpc[h] = "cw_save" /\ HandlerMayStep(h)
    /\ \E written \in BOOLEAN :
          /\ store' = IF written THEN FileOf(FormCredOf[hreq[h]]) ELSE store
          /\ hlog' = [hlog EXCEPT ![h] =
                         IF written THEN <<"save", "stop_portal">> ELSE <<"save_failed">>]
          /\ IF written /\ server # "None" THEN server_close ELSE UNCHANGED srv_vars
          /\ hpc' = [hpc EXCEPT ![h] = IF written THEN "cw_closing" ELSE "write"]
    /\ UNCHANGED <<sta_vars, ap_vars, ip_address, udp_server,
                   cfg_vars, run_vars, hreq, hroute, hresp, hsent, dns_vars, form_vars>>

\* save_config writes the record, or its write raises and the except
\* clause of save_config prints the error; stop_captive_portal_server
\* closes self.server and waits for it.
ConnectSave(h) ==
    /\ hpc[h] = "cw_save" /\ HandlerMayStep(h)
    /\ \E written \in BOOLEAN :
          /\ store' = IF written THEN FileOf(FormCredOf[hreq[h]]) ELSE store
          /\ hlog' = [hlog EXCEPT ![h] =
                         <<IF written THEN "save" ELSE "save_failed", "stop_portal">>]
    /\ IF server # "None" THEN server_close ELSE UNCHANGED srv_vars
    /\ hpc' = [hpc EXCEPT ![h] = "cw_closing"]
    /\ UNCHANGED <<sta_vars, ap_vars, ip_address, udp_server,
                   cfg_vars, run_vars, hreq, hroute, hresp, hsent, dns_vars, form_vars>>

\* wait_closed() returns; stop_dns(); stop_ap(); then the station web
\* server, when there is one, is started.
ConnectUnwind(h) ==
    /\ hpc[h] = "cw_closing" /\ HandlerMayStep(h)
    /\ stop_dns
    /\ stop_ap
    /\ hlog' = [hlog EXCEPT ![h] = hlog[h] \o <<"stop_dns", "stop_ap">>]
    /\ hpc' = [hpc EXCEPT ![h] = IF sta_web_server THEN "cw_app" ELSE "write"]
    /\ UNCHANGED <<sta_vars, srv_vars, store,
                   cfg_vars, run_vars, hreq, hroute, hresp, hsent, dns_vars, form_vars>>

\* self.server = await self.sta_web_server.run()
ConnectWebServer(h) ==
    /\ hpc[h] = "cw_app" /\ HandlerMayStep(h)
    /\ server' = "app"
    /\ app_live' = TRUE
    /\ hlog' = [hlog EXCEPT ![h] = Append(hlog[h], "start_app")]
    /\ hpc' = [hpc EXCEPT ![h] = "write"]
    /\ UNCHANGED <<sta_vars, ap_vars, ip_address, portal_live, udp_server, store,
                   cfg_vars, run_vars, hreq, hroute, hresp, hsent, dns_vars, form_vars>>

\* writer.write(response.encode()); await writer.drain()
Write(h) ==
    /\ hpc[h] = "write" /\ HandlerMayStep(h)
    /\ hsent' = [hsent EXCEPT ![h] = hresp[h]]
    /\ hpc' = [hpc EXCEPT ![h] = "close"]
    /\ UNCHANGED <<sta_vars, ap_vars, ip_address, srv_vars, udp_server, store,
                   cfg_vars, run_vars, hreq, hroute, hresp, hlog, dns_vars, form_vars>>

\* finally: writer.close(); await writer.wait_closed(); the task ends.
Close(h) ==
    /\ hpc[h] = "close" /\ HandlerMayStep(h)
    /\ hpc' = [hpc EXCEPT ![h] = "idle"]
    /\ hreq' = [hreq EXCEPT ![h] = <<>>]
    /\ hroute' = [hroute EXCEPT ![h] = "none"]
    /\ hresp' = [hresp EXCEPT ![h] = NoResp]
    /\ hsent' = [hsent EXCEPT ![h] = NoResp]
    /\ hlog' = [hlog EXCEPT ![h] = <<>>]
    /\ UNCHANGED <<sta_vars, ap_vars, ip_address, srv_vars, udp_server, store,
                   cfg_vars, run_vars, dns_vars, form_vars>>

(***************************************************************************)
(* The specification.                                                      *)
(***************************************************************************)
Environment == LinkUp \/ LinkDown \/ ApJoin \/ ApLeave

LoadConfig == LcOpen \/ LcRead \/ LcConnected \/ LcTimeout \/ LcWebServer

RunLoopStep == RunStart \/ RunLoop \/ RunAfterLoad \/ start_ap
               \/ PortalStartOk \/ PortalStartFail \/ DnsStartOk \/ DnsStartFail
               \/ DnsServe \/ RunCheck \/ RunWake

Cleanup == HostnameRaises \/ Shutdown \/ CleanupApp \/ CleanupAppStopped \/ CleanupAppRaises
           \/ CleanupStation \/ CleanupAp \/ CleanupStopAp

\* A request arrives and is dispatched.
Dispatch(h) == HandleStatic(h) \/ HandleScan(h) \/ HandleConnect(h)
               \/ HandleReconnect(h)

\* A handler in progress goes on.
Proceed(h) == ConnectLinked(h) \/ ConnectTimeout(h) \/ ConnectSave(h)
              \/ ConnectUnwind(h) \/ ConnectWebServer(h) \/ Write(h) \/ Close(h)

Handler(h) == Dispatch(h) \/ Proceed(h)

Next == Environment \/ LoadConfig \/ RunLoopStep \/ Cleanup
        \/ (\E h \in Handlers : Handler(h))

Spec == Init /\ [][Next]_vars

\* Two portal requests in progress at once.
NextConc == Environment \/ LoadConfig \/ RunLoopStep \/ Cleanup
            \/ (\E h \in Slots : Handler(h))

SpecConc == Init /\ [][NextConc]_vars

\* The manager while nothing shuts it down.  The event loop runs every
\* task that can run: weak fairness of the steps of run() and of each
\* handler in progress.  Nothing is assumed of the radios and the clients.
NextLive == Environment \/ LoadConfig \/ RunLoopStep
            \/ (\E h \in Handlers : Handler(h))

LiveSpec == /\ Init
            /\ [][NextLive]_vars
            /\ WF_vars(LoadConfig \/ RunLoopStep)
            /\ \A h \in Handlers : WF_vars(Proceed(h))

(***************************************************************************)
(* handle_dns_query on its own: a datagram arrives, the answer is built.   *)
(***************************************************************************)
\* A manager constructed with its defaults and no credential record; the
\* datagram is any query or truncated query.
InitDNS ==
    /\ Constructed
    /\ store = NoFile
    /\ Len(ap_password) = 8
    /\ sta_web_server = FALSE
    /\ dns_in \in Datagrams /\ dns_answered = FALSE /\ dns_out = <<>>
    /\ form_request = <<>> /\ form_decoded = NotDecoded

\* response = self.handle_dns_query(data)
DnsAnswer ==
    /\ ~dns_answered
    /\ dns_out' = handle_dns_query(dns_in)
    /\ dns_answered' = TRUE
    /\ UNCHANGED <<dns_in, sta_vars, ap_vars, ip_address, srv_vars, udp_server,
                   store, cfg_vars, run_vars, h_vars, form_vars>>

NextDNS == DnsAnswer

SpecDNS == InitDNS /\ [][NextDNS]_vars

(***************************************************************************)
(* The form decoding of connect_to_wifi on its own: a request arrives, the *)
(* parameters and the ssid and password are decoded.                       *)
(***************************************************************************)
InitForm ==
    /\ Constructed
    /\ store = NoFile
    /\ Len(ap_password) = 8
    /\ sta_web_server = FALSE
    /\ dns_in = <<>> /\ dns_answered = FALSE /\ dns_out = <<>>
    /\ form_request \in FormRequests /\ form_decoded = NotDecoded

\* body, params, ssid and password of connect_to_wifi
FormDecode ==
    /\ ~form_decoded.decoded
    /\ form_decoded' = [decoded |-> TRUE,
                        params  |-> FormParams(form_request),
                        cred    |-> FormCred(form_request)]
    /\ UNCHANGED <<form_request, sta_vars, ap_vars, ip_address, srv_vars,
                   udp_server, store, cfg_vars, run_vars, h_vars, dns_vars>>

NextForm == FormDecode

SpecForm == InitForm /\ [][NextForm]_vars

(***************************************************************************)
(* Properties.                                                             *)
(***************************************************************************)
CleanupPcs == {"cl_app", "cl_app_wait", "cl_sta", "cl_ap", "cl_portal_wait", "done"}
ConnectPcs == {"cw_wait", "cw_save", "cw_closing", "cw_app"}

\* No load_config and no connect_to_wifi is in progress, and run() is not
\* shutting down.
OperationsFinished ==
    /\ run_pc \notin LcPcs \cup CleanupPcs \cup {"start"}
    /\ \A h \in Slots : hpc[h] \notin ConnectPcs

\* C1: whenever the station is connected and the operation that connected
\* it has finished, the AP radio is inactive, the DNS socket is closed, the
\* portal listener is closed and the station web server, when one is
\* configured, is running.
C1_ConnectedMeansUnwound ==
    (sta_link /\ OperationsFinished) =>
        /\ ~ap_active
        /\ udp_server # "bound"
        /\ ~portal_live
        /\ (sta_web_server => app_live)

\* The fallback state: station radio off, AP radio, DNS socket and portal
\* listener all up.
FallbackActive ==
    /\ ~sta_active
    /\ ap_active
    /\ udp_server = "bound"
    /\ portal_live

\* C2: once the reload of run() has failed all 3 attempts (the manager
\* having an access-point password of at least 8 characters), the fallback
\* state is eventually reached.
C2_FallbackReached ==
    (run_pc = "after_lc" /\ attempts = 3 /\ ~sta_link /\ Len(ap_password) >= 8)
        ~> FallbackActive

\* The station radio is on, had a link, and lost it.
LinkLost == sta_active /\ ~sta_link /\ sta_cred = NoCred

\* C3: whenever an established station link is lost, run() eventually
\* calls load_config again.
C3_LinkLossRestarts ==
    (LinkLost /\ OperationsFinished) ~> (run_pc = "lc_open")

\* The stop operations the cleanup has called, the station disconnect left
\* out (it is called only when the station reports connected).
ServiceStops == SelectSeq(stop_log, LAMBDA op : op # "sta")

\* C4: when the cleanup of run() on shutdown has ended, it has called the stops of the
\* Application Server (when configured), the DNS Redirector, the Router
\* listener and the Access Point, in this order, the station disconnect
\* coming after the Application Server and before the DNS Redirector.
C4_AllStopsAttempted ==
    (run_pc = "done" /\ cancelled) =>
        /\ ServiceStops = (IF sta_web_server THEN <<"app">> ELSE <<>>)
                          \o <<"dns", "portal", "ap">>
        /\ \A i \in 1..Len(stop_log) :
              stop_log[i] = "sta" => i = (IF sta_web_server THEN 2 ELSE 1)

\* C5: for every well-formed query, the answer starts with the query's
\* transaction id and carries the query's question section from offset 12.
C5_QuestionEchoed ==
    (dns_answered /\ dns_in \in Queries) =>
        /\ Slice(dns_out, 0, 2) = Slice(dns_in, 0, 2)
        /\ Slice(dns_out, 12, Len(dns_in)) = SliceFrom(dns_in, 12)

\* The datagram's name walk ends on a zero byte without raising.
Parses(data) == ~_decode_domain_name(SliceFrom(data, 12)).raised

\* C6: the answer to a datagram that parses is the id, 0x8180, the
\* question count, 0x0001 0x0000 0x0000, the question section, and the
\* record 0xC00C 0x0001 0x0001 0x0000003C 0x0004 192.168.4.1, which is the
\* question section plus 12 plus 16 bytes; the answer to any other
\* datagram is empty.
C6_AnswerExact ==
    dns_answered =>
        IF Parses(dns_in)
        THEN /\ dns_out = <<dns_in[1], dns_in[2], 129, 128, dns_in[5], dns_in[6],
                            0, 1, 0, 0, 0, 0>>
                          \o SubSeq(dns_in, 13, Len(dns_in))
                          \o <<192, 12, 0, 1, 0, 1, 0, 0, 0, 60, 0, 4, 192, 168, 4, 1>>
             /\ Len(dns_out) = (Len(dns_in) - 12) + 12 + 16
        ELSE dns_out = <<>>

\* A query with at least one label has been answered.
C6_Witness == dns_answered /\ Parses(dns_in) /\ Len(dns_in) >= 19 /\ dns_out # <<>>

\* C7: the step of start_ap with a password shorter than 8 characters
\* leaves the AP radio inactive, goes on to the next statement of run(),
\* and changes no field of the manager.
C7_ShortPasswordNoOp ==
    [][(run_pc = "start_ap" /\ run_pc' # "start_ap" /\ Len(ap_password) < 8) =>
          /\ ~ap_active'
          /\ run_pc' = "portal_start"
          /\ UNCHANGED <<sta_vars, ap_vars, ip_address, srv_vars, udp_server,
                         store, cfg_vars>>]_vars

\* start_ap has returned on a password shorter than 8 characters.
C7_Witness == run_pc = "portal_start" /\ Len(ap_password) < 8

\* The request line: the text before the first line break.
RequestLine(request) == Slice(request, 0, Find(request, CRLF))

\* C8: the branch taken is the one the request line alone selects, and a
\* request line matching GET /generate_204 gets 204 with no body.
C8_RequestLineDecides ==
    \A h \in Slots :
        hroute[h] # "none" =>
            /\ hroute[h] = Route(RequestLine(hreq[h]))
            /\ (Route(RequestLine(hreq[h])) = "generate_204" =>
                    hresp[h] = [status |-> "204 No Content", ctype |-> "none",
                                body |-> ""])

\* C9: a handler that has finished a POST /reconnect has written a 200 OK
\* HTML response.
C9_ReconnectAnswered ==
    \A h \in Slots :
        (hroute[h] = "reconnect" /\ hpc[h] = "close") =>
            (hsent[h].status = "200 OK" /\ hsent[h].ctype = "text/html")

\* C10: the step of a POST /connect whose form lacks the ssid or the
\* password builds the error page and leaves the station radio, the
\* stored credentials, the stored IP, the AP and the services as they were.
C10_MissingFieldNoTouch ==
    [][\A h \in Slots :
          (hpc[h] = "idle" /\ hroute'[h] = "connect" /\ hpc'[h] = "write") =>
              /\ hresp'[h] = HtmlPage("Connection Error")
              /\ UNCHANGED <<sta_vars, store, ip_address, ap_vars, srv_vars,
                             udp_server>>]_vars

\* The text after the first blank-line separator of a request.
BodyAfterBlankLine(request) ==
    LET first == CHOOSE i \in 0..Len(request) :
                    /\ MatchAt(request, CRLF \o CRLF, i)
                    /\ \A j \in 0..(i - 1) : ~MatchAt(request, CRLF \o CRLF, j)
    IN  SubSeq(request, first + 5, Len(request))

\* The pieces of a text between its '&' characters, in order.
AmpFields(body) ==
    LET amps   == {i \in 1..Len(body) : body[i] = "&"}
        nth(k) == CHOOSE i \in amps : Cardinality({j \in amps : j < i}) = k - 1
        from(k) == IF k = 1 THEN 1 ELSE nth(k - 1) + 1
        to(k)   == IF k = Cardinality(amps) + 1 THEN Len(body) ELSE nth(k) - 1
    IN  [k \in 1..(Cardinality(amps) + 1) |-> SubSeq(body, from(k), to(k))]

\* A value with each '+' and each "%20" turned into one space, read from
\* left to right, everything else kept.
RECURSIVE SpaceDecoded(_)
SpaceDecoded(v) ==
    IF v = <<>> THEN <<>>
    ELSE IF v[1] = "+" THEN <<" ">> \o SpaceDecoded(SubSeq(v, 2, Len(v)))
    ELSE IF Len(v) >= 3 /\ v[1] = "%" /\ v[2] = "2" /\ v[3] = "0"
         THEN <<" ">> \o SpaceDecoded(SubSeq(v, 4, Len(v)))
    ELSE <<v[1]>> \o SpaceDecoded(SubSeq(v, 2, Len(v)))

\* The key and decoded value of a field that holds an '=': the key is what
\* stands before the first '=', unchanged.
FieldPair(field) ==
    LET eq == CHOOSE i \in 1..Len(field) :
                 field[i] = "=" /\ \A j \in 1..(i - 1) : field[j] # "="
    IN  <<SubSeq(field, 1, eq - 1), SpaceDecoded(SubSeq(field, eq + 1, Len(field)))>>

\* The pairs the claim's decoding yields for a request.
ExpectedParams(request) ==
    LET fields == AmpFields(BodyAfterBlankLine(request))
        kept   == SelectSeq(fields, LAMBDA f : \E i \in 1..Len(f) : f[i] = "=")
    IN  [k \in 1..Len(kept) |-> FieldPair(kept[k])]

ExampleRequest ==
    Request(POST_connect,
            KeySsid \o <<"=">> \o ExampleSsid \o <<"&">> \o KeyPassword \o <<"=">> \o ExamplePassword)

\* C11: the parameters decoded from a request are the fields of the text
\* after the first blank-line separator, split on '&' and on their first
\* '=', each value with '+' and "%20" replaced by a space and nothing else
\* changed, the keys unchanged; ssid=My+Wifi&password=pa%20ss yields the
\* ssid "My Wifi" and the password "pa ss".
C11_FormDecoded ==
    form_decoded.decoded =>
        /\ form_decoded.params = ExpectedParams(form_request)
        /\ (form_request = ExampleRequest =>
               form_decoded.cred = Cred(<<"M","y"," ","W","i","f","i">>,
                                        <<"p","a"," ","s","s">>))

\* The body ssid=My+Wifi&password=pa%20ss has been decoded.
C11_Witness ==
    /\ form_decoded.decoded
    /\ form_request = ExampleRequest
    /\ Len(form_decoded.params) = 2

\* A step in which stop_dns() is called: by the finally clause of
\* connect_to_wifi, or by the cleanup of run().
StopDnsCalled ==
    \/ \E h \in Slots : hpc[h] = "cw_closing" /\ hpc'[h] # "cw_closing"
    \/ run_pc = "cl_ap" /\ ap_link /\ run_pc' # "cl_ap"

\* A step in which stop_captive_portal_server() is called.
StopPortalCalled ==
    \/ \E h \in Slots : hpc[h] = "cw_save" /\ hpc'[h] = "cw_closing"
    \/ run_pc = "cl_ap" /\ ap_link /\ run_pc' # "cl_ap"

\* C12: a call of stop_dns while the redirector holds no socket (it was
\* never started, or stop_dns has been called) leaves the socket field as
\* it is, and a call of stop_captive_portal_server while the portal
\* listener is not listening (never started, or stopped) leaves the server
\* handle and both listeners as they are.
C12_StopOfStoppedIsNoOp ==
    [][/\ (StopDnsCalled /\ udp_server = "None") => UNCHANGED udp_server
       /\ (StopPortalCalled /\ ~portal_live) => UNCHANGED srv_vars]_vars

\* A step in which load_config returns because there is no credential
\* record, or because the record it read has an empty ssid.
LoadConfigGivesUp ==
    /\ ~cancelled'
    /\ \/ run_pc = "lc_open" /\ ~store.exists /\ run_pc' # "lc_open"
       \/ run_pc = "lc_read" /\ store.ssid = <<>> /\ run_pc' # "lc_read"

\* C13: load_config returning on a missing record or on a record with an
\* empty ssid returns to run() at once, with no further attempt, and leaves
\* both radios (no activation, no connect, no access point), the stored IP
\* and the server handle as they were.
C13_NoRecordNoConnect ==
    [][LoadConfigGivesUp =>
          /\ run_pc' \in {"loop", "after_lc"}
          /\ UNCHANGED <<sta_vars, ap_vars, ip_address, srv_vars, attempts>>]_vars

\* The reload of run() has returned on a record with an empty ssid, the
\* station radio never activated.
C13_Witness ==
    /\ run_pc = "after_lc" /\ lc_ret = "loop"
    /\ store.exists /\ store.ssid = <<>>
    /\ ~sta_active /\ ~ap_active /\ ip_address = "None"

\* The write of the credential record failed in the connect_to_wifi that
\* handler h is running.
SaveFailed(h) == hlog[h] # <<>> /\ hlog[h][1] = "save_failed"

\* What the finally clause of connect_to_wifi does after a failed write.
FullUnwind ==
    <<"save_failed", "stop_portal", "stop_dns", "stop_ap">>
    \o (IF sta_web_server THEN <<"start_app">> ELSE <<>>)

\* C14: after a failed write of the credential record the handler does not
\* touch the station radio, it still has the success page to return, by
\* the time it writes its response it has stopped the portal listener, the
\* DNS Redirector and the Access Point and started the station web server
\* (when there is one), and the response it writes is the success page.
C14_FailedSaveNotFatal ==
    [][\A h \in Slots :
          /\ (SaveFailed(h) /\ hpc'[h] # hpc[h]) => UNCHANGED sta_vars
          /\ SaveFailed(h)' =>
                /\ hresp'[h] = HtmlPage("Connected")
                /\ hpc'[h] \in {"cw_closing", "cw_app", "write", "close"}
                /\ hpc'[h] \in {"write", "close"} => hlog'[h] = FullUnwind'
                /\ hpc'[h] = "close" => hsent'[h] = HtmlPage("Connected")]_vars

\* A handler whose write of the record failed has sent the success page,
\* the station still connected, the fallback services down and the station
\* web server up.
C14_Witness ==
    \E h \in Slots :
        /\ SaveFailed(h) /\ hpc[h] = "close"
        /\ hsent[h] = HtmlPage("Connected")
        /\ sta_link /\ ~store.exists
        /\ ~portal_live /\ udp_server # "bound" /\ ~ap_active
        /\ sta_web_server /\ app_live

\* C15: run() is in its cleanup block, or has ended, only when the task
\* has been cancelled (process shutdown): no failure of an operation it
\* invokes takes it out of its loop.
C15_LoopEndsOnlyOnShutdown == run_pc \in CleanupPcs => cancelled

\* C16: once the portal listener has been stopped while run() is suspended
\* inside start_captive_portal_server, the call returns; and once the DNS
\* socket has been closed while run() is inside the receive loop of
\* start_dns, that call returns.
C16_StoppedTaskEnds ==
    /\ (run_pc = "portal_loop" /\ ~portal_live) ~> (run_pc # "portal_loop")
    /\ (run_pc = "dns_loop" /\ udp_server # "bound") ~> (run_pc # "dns_loop")

\* self.server refers to a listener that is listening.
HandleLive ==
    \/ server = "portal" /\ portal_live
    \/ server = "app" /\ app_live

\* Steps in which a listener is started and its handle stored.
PortalStarted == run_pc = "portal_start" /\ run_pc' = "portal_loop"
AppStarted ==
    \/ run_pc = "lc_websrv" /\ run_pc' \in {"loop", "after_lc"}
    \/ \E h \in Slots : hpc[h] = "cw_app" /\ hpc'[h] = "write"
DnsStarted == run_pc = "dns_start" /\ run_pc' = "dns_loop"

\* C17: whenever a listener is started and its handle stored, no listener
\* of that role is listening and the field the handle goes into does not
\* refer to a listener that is listening.
C17_StartNeverReplacesLive ==
    [][/\ PortalStarted => (~portal_live /\ ~HandleLive)
       /\ AppStarted => (~app_live /\ ~HandleLive)
       /\ DnsStarted => udp_server # "bound"]_vars

\* C18: the DNS socket is bound and the portal listener is listening only
\* while the AP radio is active, and the DNS receive loop runs only in a
\* fallback whose access point and portal listener did start.
C18_FailedStartStopsFallback ==
    /\ (udp_server = "bound" \/ portal_live) => ap_active
    /\ run_pc = "dns_loop" => (ap_active /\ portal_live)

\* Handler h has called stop_ap() in the finally clause of connect_to_wifi.
CalledStopAp(h) == \E i \in 1..Len(hlog[h]) : hlog[h][i] = "stop_ap"

\* C19: when a handler writes the success page of a POST /connect, its own
\* teardown has not yet taken down the access point the client is
\* connected through.
C19_PageBeforeTeardown ==
    [][\A h \in Slots :
          (hpc[h] = "write" /\ hpc'[h] = "close" /\ hresp[h] = HtmlPage("Connected"))
              => ~(CalledStopAp(h) /\ ~ap_active)]_vars

\* The attempt policy of load_config, step by step: the counter starts at
\* 0 with the first connect; a polling loop that ends with the link up is
\* followed by no further connect and leaves the counter alone; the third
\* time-out makes load_config return with the station radio deactivated.
AttemptPolicy ==
    /\ (run_pc = "lc_read" /\ run_pc' = "lc_wait") => attempts' = 0
    /\ (run_pc = "lc_wait" /\ sta_link /\ run_pc' # "lc_wait" /\ ~cancelled') =>
          /\ UNCHANGED <<attempts, sta_vars>>
          /\ run_pc' \in {"lc_websrv", "loop", "after_lc"}
    /\ (run_pc = "lc_wait" /\ attempts = 2 /\ attempts' = 3) =>
          /\ ~sta_active'
          /\ run_pc' \in {"loop", "after_lc"}

\* C20 (as stated): load_config follows the attempt policy and its attempt
\* counter is within [0, 3) at every point.
C20_CounterBelowThree ==
    [][attempts' \in 0..2 /\ AttemptPolicy]_vars

\* C20 (amended): load_config follows the attempt policy, every connect
\* attempt is made with the counter within [0, 3), and the counter is
\* within [0, 3]: it is 3 once the third attempt has timed out.
C20_CounterAtMostThree ==
    [][/\ attempts' \in 0..3
       /\ run_pc' = "lc_wait" => attempts' \in 0..2
       /\ AttemptPolicy]_vars

\* The reload of run() has returned after three attempts that timed out,
\* the station radio deactivated.
C20_Witness ==
    /\ run_pc = "after_lc" /\ attempts = 3
    /\ ~sta_active /\ ~sta_link

\* C21: whenever the station is connected and the operation that connected
\* it has finished, the stored IP is the station interface's IP.
C21_StoredIpIsStationIp ==
    (sta_link /\ OperationsFinished) => ip_address = "sta"

\* Handler h has started the station web server in its finally clause.
StartedApp(h) == \E i \in 1..Len(hlog[h]) : hlog[h][i] = "start_app"

\* C22: a handler leaves its polling loop for the success path (success
\* page, write of the record) only when the link is held by the ssid and
\* password of its own request; and while one handler runs or has run the
\* teardown of its connect, no other handler starts the teardown or the
\* station web server again.
C22_OnlyLinkingHandlerSucceeds ==
    [][\A h \in Slots :
          /\ (hpc[h] = "cw_wait" /\ hpc'[h] = "cw_save") =>
                FormCredOf[hreq[h]] = sta_cred
          /\ (hpc[h] = "cw_save" /\ hpc'[h] = "cw_closing") =>
                \A g \in Slots \ {h} : hlog[g] = <<>>
          /\ (hpc[h] = "cw_app" /\ hpc'[h] = "write") =>
                \A g \in Slots \ {h} : ~StartedApp(g)]_vars

\* C23: a GET /scan leaves the station radio deactivated when it has
\* finished; and while a POST /connect goes on waiting for its link, no
\* step of another handler deactivates the station radio.
C23_ScanAndConnectExclusive ==
    [][\A h \in Slots :
          /\ (hpc[h] = "idle" /\ hroute'[h] = "scan") => ~sta_active'
          /\ (hpc[h] = "cw_wait" /\ hpc'[h] = "cw_wait"
                /\ \E g \in Slots \ {h} : hpc'[g] # hpc[g]) => sta_active']_vars

=============================================================================
